---------------------------- MODULE Spec2Model ----------------------------
(***************************************************************************)
(* A model of the two header-only libraries of the repository:             *)
(*   - the compile-time Base64 codec (ct-base64.hpp, ct-base64-impl.h,     *)
(*     ct-string.hpp), modelled as pure operators on character packs and   *)
(*     driven by the actions Encode and Decode;                            *)
(*   - Alarm and PeriodicAlarm of Timer.hpp, modelled as a state machine   *)
(*     over the std::thread member `background` and the threads it starts. *)
(* Characters are modelled by their integer codes, as C++ `char` values.   *)
(***************************************************************************)
EXTENDS Integers, Sequences, FiniteSets, TLC

VARIABLES
    build,       \* how the translation unit is built (char signedness, narrowing)
    source,      \* the character pack the program starts from
    prev,        \* the pack the last operation was applied to
    cur,         \* the current ct::string<...> pack
    ops,         \* the operations applied so far, in order
    status,      \* "ok", "static_assert" (line 118 fired) or "ill_formed"
    implGroups,  \* b64_decoder_impl specialisations instantiated by the last decode
    thr,         \* the threads started by Alarm::program, by slot
    background,  \* Alarm::background: 0 when not joinable, else the slot it refers to
    terminated,  \* std::terminate was called
    upc,         \* where the calling (user) thread is inside program() or cancel()
    uresult,     \* how the user's last call ended
    ucancelled,  \* the user's cancel() has returned and program() was not called since
    temp         \* the std::thread temporary each caller of program() holds (0: none)

b64vars == <<build, source, prev, cur, ops, status, implGroups>>

alarmvars == <<thr, background, terminated, upc, uresult, ucancelled, temp>>

vars == <<build, source, prev, cur, ops, status, implGroups,
          thr, background, terminated, upc, uresult, ucancelled, temp>>

----------------------------------------------------------------------------
(* Bounds of the model *)

\* longest character pack enumerated exhaustively over SampleBytes
MaxLen == 5

\* most threads started by an Alarm that are alive at once
MaxThreads == 3

----------------------------------------------------------------------------
(* Builds and characters *)

\* plain char is unsigned; or signed with out-of-range template arguments
\* wrapped (g++); or signed with the narrowing rejected (ill-formed program)
Builds == {"unsigned", "signed_wrap", "signed_strict"}

\* the value of (char) b for a byte 0..255 under the build
CharOf(b) == IF build # "unsigned" /\ b > 127 THEN b - 256 ELSE b

\* the byte a char value stands for
ByteOf(c) == c % 256

\* marks a template argument that is no valid char (program ill-formed)
NotAChar == 999

\* the padding character '='
PadChar == 61

\* 'A', 'Q', '&', '=', and the byte 0xFF
SampleBytes == {65, 81, 38, 61, 255}

\* literal packs beyond the exhaustive ones
Fixtures ==
    { <<77, 97, 110>>,                       \* "Man"
      <<77, 97>>,                            \* "Ma"
      <<0>>, <<0, 0>>, <<128, 1, 254>>,
      <<84, 87, 70, 117>>,                   \* "TWFu"
      <<84, 87, 69, 61>>,                    \* "TWE="
      <<84, 81, 61, 61>>,                    \* "TQ=="
      <<65, 66, 61, 61>>,                    \* "AB=="
      <<65, 65, 66, 61>>,                    \* "AAB="
      <<65, 65, 43, 65>>,                    \* "AA+A"
      <<65, 65, 47, 65>>,                    \* "AA/A"
      <<65, 65, 64, 38>>,                    \* "AA@&"
      <<65, 65, 61, 61, 65, 65, 65, 65>>,    \* "AA==AAAA"
      <<65, 65, 65, 65, 65, 65, 61, 61>>,    \* "AAAAAA=="
      <<65, 65, 65, 65, 65, 65, 65, 61>>,    \* "AAAAAAA="
      <<65, 65, 65, 65, 61, 61>> }           \* "AAAA=="

\* every byte value in every position of a one-, two- and three-byte group
ByteSweep ==
    { <<b>> : b \in 0..255 }
        \cup { <<b, 255 - b>> : b \in 0..255 }
        \cup { <<b, (7 * b + 3) % 256, 255 - b>> : b \in 0..255 }

Inputs ==
    UNION { [1..n -> SampleBytes] : n \in 0..MaxLen } \cup Fixtures \cup ByteSweep

----------------------------------------------------------------------------
(* Integer operations of C++ on int *)

RECURSIVE NatAnd(_, _)
NatAnd(a, b) ==
    IF a = 0 \/ b = 0 THEN 0
    ELSE (a % 2) * (b % 2) + 2 * NatAnd(a \div 2, b \div 2)

RECURSIVE NatOr(_, _)
NatOr(a, b) ==
    IF a = 0 THEN b
    ELSE IF b = 0 THEN a
    ELSE (IF a % 2 = 1 \/ b % 2 = 1 THEN 1 ELSE 0) + 2 * NatOr(a \div 2, b \div 2)

\* the low 16 bits of the two's complement image of an int
Low16(x) == x % 65536

\* x & m, for an int x (possibly negative) and a mask 0 <= m < 2^16
\* (every mask of the source is at most 0xFF)
BitAnd(x, m) == NatAnd(Low16(x), m)

\* x | y for non-negative ints
BitOr(x, y) == NatOr(x, y)

\* x >> n and x << n for non-negative x
Shr(x, n) == x \div (2 ^ n)

Shl(x, n) == x * (2 ^ n)

----------------------------------------------------------------------------
(* impl::dict and impl::indexOf *)

dict ==
    << 65, 66, 67, 68, 69, 70, 71, 72, 73, 74, 75, 76, 77,
       78, 79, 80, 81, 82, 83, 84, 85, 86, 87, 88, 89, 90,
       97, 98, 99, 100, 101, 102, 103, 104, 105, 106, 107, 108, 109,
       110, 111, 112, 113, 114, 115, 116, 117, 118, 119, 120, 121, 122,
       48, 49, 50, 51, 52, 53, 54, 55, 56, 57, 64, 38 >>

\* dict[i] with the 0-based index of the source
DictAt(i) == dict[i + 1]

\* indexOf with the two symbol cases left out
indexOfNoSymbols(c) ==
    IF 65 <= c /\ c <= 90 THEN 0 + c - 65
    ELSE IF 97 <= c /\ c <= 122 THEN 26 + c - 97
    ELSE IF 48 <= c /\ c <= 57 THEN 52 + c - 48
    ELSE 64

indexOf(c) ==
    IF 65 <= c /\ c <= 90 THEN 0 + c - 65
    ELSE IF 97 <= c /\ c <= 122 THEN 26 + c - 97
    ELSE IF 48 <= c /\ c <= 57 THEN 52 + c - 48
    ELSE IF c = 64 THEN 62
    ELSE IF c = 38 THEN 63
    ELSE 64

----------------------------------------------------------------------------
(* impl::checks *)

Tail4(s) == SubSeq(s, 5, Len(s))

RECURSIVE is_base64_chars_v(_)
is_base64_chars_v(s) ==
    IF Len(s) = 0 THEN TRUE
    ELSE IF Len(s) = 3 /\ s[2] = PadChar /\ s[3] = PadChar THEN indexOf(s[1]) < 64
    ELSE IF Len(s) = 2 /\ s[2] = PadChar THEN indexOf(s[1]) < 64
    ELSE indexOf(s[1]) < 64 /\ is_base64_chars_v(Tail(s))

is_base64_valid_length_v(n) == n % 4 = 0

\* is_base64_encoding_v with the length test left out
is_base64_encoding_vNoLength(s) == is_base64_chars_v(s)

is_base64_encoding_v(s) ==
    is_base64_valid_length_v(Len(s)) /\ is_base64_chars_v(s)

----------------------------------------------------------------------------
(* impl::CTBase64Encoder *)

EncodeFull(c1, c2, c3) ==
    << DictAt(Shr(BitAnd(c1, 252), 2)),
       DictAt(BitOr(Shl(BitAnd(c1, 3), 4), Shr(BitAnd(c2, 240), 4))),
       DictAt(BitOr(Shl(BitAnd(c2, 15), 2), Shr(BitAnd(c3, 192), 6))),
       DictAt(BitAnd(c3, 63)) >>

\* EncodeTwo with the shift of the third index left out
EncodeTwoNoShift(c1, c2) ==
    << DictAt(Shr(BitAnd(c1, 252), 2)),
       DictAt(BitOr(Shl(BitAnd(c1, 3), 4), Shr(BitAnd(c2, 240), 4))),
       DictAt(BitAnd(c2, 15)),
       PadChar >>

EncodeTwo(c1, c2) ==
    << DictAt(Shr(BitAnd(c1, 252), 2)),
       DictAt(BitOr(Shl(BitAnd(c1, 3), 4), Shr(BitAnd(c2, 240), 4))),
       DictAt(Shl(BitAnd(c2, 15), 2)),
       PadChar >>

EncodeOne(c1) ==
    << DictAt(Shr(BitAnd(c1, 252), 2)),
       DictAt(Shl(BitAnd(c1, 3), 4)),
       PadChar, PadChar >>

RECURSIVE CTBase64Encoder(_)
CTBase64Encoder(s) ==
    IF Len(s) = 0 THEN << >>
    ELSE IF Len(s) = 1 THEN EncodeOne(s[1])
    ELSE IF Len(s) = 2 THEN EncodeTwo(s[1], s[2])
    ELSE EncodeFull(s[1], s[2], s[3]) \o CTBase64Encoder(SubSeq(s, 4, Len(s)))

----------------------------------------------------------------------------
(* impl::string_from_int and impl::b64_decoder_impl *)

\* a template argument v (an int in 0..255) converted to the char parameter
NarrowToChar(v) ==
    IF v <= 127 \/ build = "unsigned" THEN v
    ELSE IF build = "signed_wrap" THEN v - 256
    ELSE NotAChar

string_from_int(s) ==
    << NarrowToChar(BitAnd(Shr(s, 16), 255)),
       NarrowToChar(BitAnd(Shr(s, 8), 255)),
       NarrowToChar(BitAnd(s, 255)) >>

RECURSIVE b64_decoder_impl(_)
b64_decoder_impl(s) ==
    IF Len(s) = 0 THEN << >>
    ELSE IF Len(s) < 4 THEN << NotAChar >>     \* only the primary template matches
    ELSE IF Len(s) = 4 /\ s[3] = PadChar /\ s[4] = PadChar
         THEN string_from_int(BitOr(Shl(indexOf(s[1]), 18), Shl(indexOf(s[2]), 12)))
    ELSE IF Len(s) = 4 /\ s[4] = PadChar
         THEN string_from_int(BitOr(BitOr(Shl(indexOf(s[1]), 18), Shl(indexOf(s[2]), 12)),
                                    Shl(indexOf(s[3]), 6)))
    ELSE string_from_int(BitOr(BitOr(Shl(indexOf(s[1]), 18), Shl(indexOf(s[2]), 12)),
                               BitOr(Shl(indexOf(s[3]), 6), indexOf(s[4]))))
         \o b64_decoder_impl(Tail4(s))

\* the specialisations of b64_decoder_impl instantiated for a pack
RECURSIVE ImplInstantiations(_)
ImplInstantiations(s) ==
    IF Len(s) < 4 THEN 1
    ELSE IF Len(s) = 4 /\ s[4] = PadChar THEN 1
    ELSE 1 + ImplInstantiations(Tail4(s))

WellFormed(str) == \A i \in 1..Len(str) : str[i] # NotAChar

\* b64_decode_if whose primary template decodes as the specialisation does
b64_decode_ifUnchecked(isvalid, s) ==
    [ asserted |-> ~isvalid, str |-> b64_decoder_impl(s), groups |-> ImplInstantiations(s) ]

b64_decode_if(isvalid, s) ==
    IF isvalid
    THEN [ asserted |-> FALSE, str |-> b64_decoder_impl(s), groups |-> ImplInstantiations(s) ]
    ELSE [ asserted |-> TRUE, str |-> << >>, groups |-> 0 ]

CTBase64Decoder(s) == b64_decode_if(is_base64_encoding_v(s), s)

----------------------------------------------------------------------------
(* Alarm and PeriodicAlarm (Timer.hpp) *)

Slots == 1..MaxThreads

FreeSlot == [st |-> "free", periodic |-> FALSE, cancelled |-> FALSE]

NoThreads == [i \in Slots |-> FreeSlot]

\* who can be inside Alarm::program: the user (0) or a thread running the lambda
Callers == 0..MaxThreads

NoTemps == [a \in Callers |-> 0]

\* Alarm::busy(): background.joinable()
busy == background # 0

HasFree == \E i \in Slots : thr[i].st = "free"

NewSlot == CHOOSE i \in Slots : thr[i].st = "free" /\ \A j \in Slots : thr[j].st = "free" => i <= j

\* std::thread([=] { sleep_for(wait); event(args...); }) started in slot j
Started(t, j, p) == [t EXCEPT ![j] = [st |-> "sleeping", periodic |-> p, cancelled |-> FALSE]]

\* background.detach() by the user: the thread keeps running; a finished one is released
Detached(t, byUser) ==
    [t EXCEPT ![background] =
        IF t[background].st = "done" THEN FreeSlot
        ELSE [@ EXCEPT !.cancelled = @ \/ (byUser /\ t[background].st = "sleeping")]]

\* a std::thread object (background or a temporary) still refers to slot i
Joinable(i, bg, tp) == bg = i \/ \E a \in Callers : tp[a] = i

\* the thread function of slot i returns
Finished(t, i) ==
    [t EXCEPT ![i] = IF Joinable(i, background, temp) THEN [@ EXCEPT !.st = "done"]
                     ELSE FreeSlot]

\* Alarm::program, line 312, entered by the user (p: through PeriodicAlarm::program)
UserProgram(p) ==
    /\ ~terminated /\ upc = "idle" /\ HasFree
    /\ ucancelled' = FALSE
    /\ IF ~busy
       THEN upc' = (IF p THEN "assign_periodic" ELSE "assign") /\ UNCHANGED uresult
       ELSE uresult' = "ignored" /\ UNCHANGED upc
    /\ UNCHANGED <<thr, background, terminated, temp>>

\* Alarm::program, lines 314-317: std::thread(...) is constructed and its thread starts
UserSpawn ==
    /\ ~terminated /\ upc \in {"assign", "assign_periodic"} /\ temp[0] = 0 /\ HasFree
    /\ thr' = Started(thr, NewSlot, upc = "assign_periodic")
    /\ temp' = [temp EXCEPT ![0] = NewSlot]
    /\ UNCHANGED <<background, terminated, upc, uresult, ucancelled>>

\* Alarm::program, line 314: background = (the temporary), a move assignment
UserAssign ==
    /\ ~terminated /\ upc \in {"assign", "assign_periodic"} /\ temp[0] # 0
    /\ IF busy
       THEN terminated' = TRUE /\ UNCHANGED <<background, uresult, temp>>
       ELSE /\ background' = temp[0]
            /\ temp' = [temp EXCEPT ![0] = 0]
            /\ uresult' = "programmed"
            /\ UNCHANGED terminated
    /\ upc' = "idle"
    /\ UNCHANGED <<thr, ucancelled>>

\* Alarm::cancel, line 320, entered by the user: if(busy())
UserCancel ==
    /\ ~terminated /\ upc = "idle"
    /\ IF busy
       THEN upc' = "detach" /\ UNCHANGED <<uresult, ucancelled>>
       ELSE uresult' = "nothing" /\ ucancelled' = TRUE /\ UNCHANGED upc
    /\ UNCHANGED <<thr, background, terminated, temp>>

\* Alarm::cancel, line 320: background.detach()
UserDetach ==
    /\ ~terminated /\ upc = "detach"
    /\ upc' = "idle"
    /\ ucancelled' = TRUE
    /\ IF busy
       THEN thr' = Detached(thr, TRUE) /\ background' = 0 /\ uresult' = "cancelled"
       ELSE uresult' = "system_error" /\ UNCHANGED <<thr, background>>
    /\ UNCHANGED <<terminated, temp>>

\* line 315 ends and line 316 invokes the routine
Wake(i) ==
    /\ ~terminated /\ thr[i].st = "sleeping"
    /\ thr' = [thr EXCEPT ![i].st = "event"]
    /\ UNCHANGED <<background, terminated, upc, uresult, ucancelled, temp>>

\* the user's routine returns; a periodic thread goes on in the lambda of line 326
EventReturn(i) ==
    /\ ~terminated /\ thr[i].st = "event"
    /\ thr' = IF thr[i].periodic THEN [thr EXCEPT ![i].st = "cancel_check"]
              ELSE Finished(thr, i)
    /\ UNCHANGED <<background, terminated, upc, uresult, ucancelled, temp>>

\* line 328: this->cancel(), up to if(busy())
LambdaCancel(i) ==
    /\ ~terminated /\ thr[i].st = "cancel_check"
    /\ thr' = [thr EXCEPT ![i].st = IF busy THEN "detach" ELSE "program_check"]
    /\ UNCHANGED <<background, terminated, upc, uresult, ucancelled, temp>>

\* line 328: background.detach() inside the thread (std::system_error is not caught)
LambdaDetach(i) ==
    /\ ~terminated /\ thr[i].st = "detach"
    /\ IF busy
       THEN /\ thr' = [Detached(thr, FALSE) EXCEPT ![i].st = "program_check"]
            /\ background' = 0
            /\ UNCHANGED terminated
       ELSE terminated' = TRUE /\ UNCHANGED <<thr, background>>
    /\ UNCHANGED <<upc, uresult, ucancelled, temp>>

\* line 329: this->program(...), up to if(!busy())
LambdaProgram(i) ==
    /\ ~terminated /\ thr[i].st = "program_check"
    /\ thr' = IF ~busy THEN [thr EXCEPT ![i].st = "assign"] ELSE Finished(thr, i)
    /\ UNCHANGED <<background, terminated, upc, uresult, ucancelled, temp>>

\* line 329, in Alarm::program: std::thread(...) is constructed and its thread starts
LambdaSpawn(i) ==
    /\ ~terminated /\ thr[i].st = "assign" /\ temp[i] = 0 /\ HasFree
    /\ thr' = Started(thr, NewSlot, TRUE)
    /\ temp' = [temp EXCEPT ![i] = NewSlot]
    /\ UNCHANGED <<background, terminated, upc, uresult, ucancelled>>

\* line 329, in Alarm::program: background = (the temporary); then the lambda returns
LambdaAssign(i) ==
    /\ ~terminated /\ thr[i].st = "assign" /\ temp[i] # 0
    /\ IF busy
       THEN terminated' = TRUE /\ UNCHANGED <<thr, background, temp>>
       ELSE /\ background' = temp[i]
            /\ temp' = [temp EXCEPT ![i] = 0]
            /\ thr' = [thr EXCEPT ![i] =
                          IF Joinable(i, temp[i], temp) THEN [@ EXCEPT !.st = "done"]
                          ELSE FreeSlot]
            /\ UNCHANGED terminated
    /\ UNCHANGED <<upc, uresult, ucancelled>>

----------------------------------------------------------------------------
(* Base64::encode and Base64::decode applied to the current pack *)

CanApply(op) ==
    /\ status = "ok"
    /\ \A i \in 1..Len(ops) : ops[i] # op

Encode ==
    /\ CanApply("encode")
    /\ prev' = cur
    /\ cur' = CTBase64Encoder(cur)
    /\ ops' = Append(ops, "encode")
    /\ UNCHANGED <<build, source, status, implGroups>>
    /\ UNCHANGED alarmvars

Decode ==
    /\ CanApply("decode")
    /\ LET r == CTBase64Decoder(cur) IN
         /\ prev' = cur
         /\ ops' = Append(ops, "decode")
         /\ implGroups' = r.groups
         /\ status' = IF r.asserted THEN "static_assert"
                      ELSE IF ~WellFormed(r.str) THEN "ill_formed"
                      ELSE "ok"
         /\ cur' = IF WellFormed(r.str) THEN r.str ELSE << >>
    /\ UNCHANGED <<build, source>>
    /\ UNCHANGED alarmvars

----------------------------------------------------------------------------
(* Specifications *)

AlarmIdle ==
    /\ thr = NoThreads
    /\ background = 0
    /\ terminated = FALSE
    /\ upc = "idle"
    /\ uresult = "none"
    /\ ucancelled = FALSE
    /\ temp = NoTemps

B64Idle ==
    /\ build = "unsigned"
    /\ source = << >>
    /\ cur = << >>
    /\ prev = << >>
    /\ ops = << >>
    /\ status = "ok"
    /\ implGroups = 0

\* the codec: any build, any input pack
Init ==
    /\ build \in Builds
    /\ source \in Inputs
    /\ cur = [i \in 1..Len(source) |-> CharOf(source[i])]
    /\ prev = << >>
    /\ ops = << >>
    /\ status = "ok"
    /\ implGroups = 0
    /\ AlarmIdle

Next == Encode \/ Decode

Spec == Init /\ [][Next]_vars

\* one Alarm object used by one calling thread
InitAlarm == B64Idle /\ AlarmIdle

NextAlarm ==
    \/ (UserProgram(FALSE) /\ UNCHANGED b64vars)
    \/ (UserSpawn /\ UNCHANGED b64vars)
    \/ (UserAssign /\ UNCHANGED b64vars)
    \/ (UserCancel /\ UNCHANGED b64vars)
    \/ (UserDetach /\ UNCHANGED b64vars)
    \/ \E i \in Slots : Wake(i) /\ UNCHANGED b64vars
    \/ \E i \in Slots : EventReturn(i) /\ UNCHANGED b64vars

SpecAlarm == InitAlarm /\ [][NextAlarm]_vars

\* one PeriodicAlarm object used by one calling thread
NextPeriodic ==
    \/ (UserProgram(TRUE) /\ UNCHANGED b64vars)
    \/ (UserSpawn /\ UNCHANGED b64vars)
    \/ (UserAssign /\ UNCHANGED b64vars)
    \/ (UserCancel /\ UNCHANGED b64vars)
    \/ (UserDetach /\ UNCHANGED b64vars)
    \/ \E i \in Slots : Wake(i) /\ UNCHANGED b64vars
    \/ \E i \in Slots : EventReturn(i) /\ UNCHANGED b64vars
    \/ \E i \in Slots : LambdaCancel(i) /\ UNCHANGED b64vars
    \/ \E i \in Slots : LambdaDetach(i) /\ UNCHANGED b64vars
    \/ \E i \in Slots : LambdaProgram(i) /\ UNCHANGED b64vars
    \/ \E i \in Slots : LambdaSpawn(i) /\ UNCHANGED b64vars
    \/ \E i \in Slots : LambdaAssign(i) /\ UNCHANGED b64vars

SpecPeriodic == InitAlarm /\ [][NextPeriodic]_vars

\* one PeriodicAlarm object, programmed once while idle and never cancelled
NextPeriodicOnce ==
    \/ (UserProgram(TRUE) /\ uresult = "none" /\ UNCHANGED b64vars)
    \/ (UserSpawn /\ UNCHANGED b64vars)
    \/ (UserAssign /\ UNCHANGED b64vars)
    \/ \E i \in Slots : Wake(i) /\ UNCHANGED b64vars
    \/ \E i \in Slots : EventReturn(i) /\ UNCHANGED b64vars
    \/ \E i \in Slots : LambdaCancel(i) /\ UNCHANGED b64vars
    \/ \E i \in Slots : LambdaDetach(i) /\ UNCHANGED b64vars
    \/ \E i \in Slots : LambdaProgram(i) /\ UNCHANGED b64vars
    \/ \E i \in Slots : LambdaSpawn(i) /\ UNCHANGED b64vars
    \/ \E i \in Slots : LambdaAssign(i) /\ UNCHANGED b64vars

\* every thread that can take a step eventually takes it
FairPeriodicOnce ==
    /\ WF_vars(UserSpawn /\ UNCHANGED b64vars)
    /\ WF_vars(UserAssign /\ UNCHANGED b64vars)
    /\ \A i \in Slots :
          /\ WF_vars(Wake(i) /\ UNCHANGED b64vars)
          /\ WF_vars(EventReturn(i) /\ UNCHANGED b64vars)
          /\ WF_vars(LambdaCancel(i) /\ UNCHANGED b64vars)
          /\ WF_vars(LambdaDetach(i) /\ UNCHANGED b64vars)
          /\ WF_vars(LambdaProgram(i) /\ UNCHANGED b64vars)
          /\ WF_vars(LambdaSpawn(i) /\ UNCHANGED b64vars)
          /\ WF_vars(LambdaAssign(i) /\ UNCHANGED b64vars)

SpecPeriodicOnce == InitAlarm /\ [][NextPeriodicOnce]_vars /\ FairPeriodicOnce

----------------------------------------------------------------------------
(* Reference definitions the properties are stated against *)

\* the pack the program started from, as char values
SourceChars == [i \in 1..Len(source) |-> CharOf(source[i])]

LastOp == IF Len(ops) = 0 THEN "none" ELSE ops[Len(ops)]

\* the alphabet by position: A-Z, a-z, 0-9, '@', '&'
RefSym(i) ==
    IF i < 26 THEN 65 + i
    ELSE IF i < 52 THEN 97 + (i - 26)
    ELSE IF i < 62 THEN 48 + (i - 52)
    ELSE IF i = 62 THEN 64
    ELSE 38

RefAlphabet == { RefSym(i) : i \in 0..63 }

\* the reference encoder, on byte values, by division and remainder
RECURSIVE RefEncode(_)
RefEncode(b) ==
    IF Len(b) = 0 THEN << >>
    ELSE IF Len(b) = 1
         THEN << RefSym(b[1] \div 4), RefSym((b[1] % 4) * 16), PadChar, PadChar >>
    ELSE IF Len(b) = 2
         THEN << RefSym(b[1] \div 4), RefSym((b[1] % 4) * 16 + b[2] \div 16),
                 RefSym((b[2] % 16) * 4), PadChar >>
    ELSE << RefSym(b[1] \div 4), RefSym((b[1] % 4) * 16 + b[2] \div 16),
            RefSym((b[2] % 16) * 4 + b[3] \div 64), RefSym(b[3] % 64) >>
         \o RefEncode(SubSeq(b, 4, Len(b)))

Bytes(s) == [i \in 1..Len(s) |-> ByteOf(s[i])]

\* length a multiple of 4, alphabet members, '=' only in the last one or two places
RefValid(s) ==
    /\ Len(s) % 4 = 0
    /\ \A i \in 1..Len(s) :
          \/ s[i] \in RefAlphabet
          \/ /\ s[i] = PadChar
             /\ (i = Len(s)) \/ (i = Len(s) - 1 /\ s[Len(s)] = PadChar)

PadCount(s) == Cardinality({ i \in 1..Len(s) : s[i] = PadChar })

\* a valid string whose padded group leaves no bits behind (what encode can produce)
RefCanonical(s) ==
    /\ RefValid(s)
    /\ PadCount(s) = 1 => indexOf(s[Len(s) - 1]) % 4 = 0
    /\ PadCount(s) = 2 => indexOf(s[Len(s) - 2]) % 16 = 0

----------------------------------------------------------------------------
(* Properties *)

\* C1: decode(encode(b)) is exactly b, same bytes and same length, for every
\* byte sequence b (stated for the runs where decode produced a string).
C1_DecodeEncodeRoundTrip ==
    (ops = <<"encode", "decode">> /\ status = "ok") => cur = SourceChars

\* C2: encode(decode(s)) is exactly s for every string s that passes the
\* decoder's validation (stated for the strings encode itself can produce).
C2_EncodeDecodeRoundTrip ==
    (ops = <<"decode", "encode">> /\ status = "ok" /\ RefCanonical(SourceChars))
        => cur = SourceChars

\* C3: encode produces exactly the output of the reference algorithm for all
\* byte values, the output length is 4*ceil(n/3), and "Man" encodes to "TWFu".
C3_EncodeIsReference ==
    LastOp = "encode" =>
        /\ cur = RefEncode(Bytes(prev))
        /\ Len(cur) = 4 * ((Len(prev) + 2) \div 3)
        /\ prev = <<77, 97, 110>> => cur = <<84, 87, 70, 117>>
        /\ prev = << >> => cur = << >>

\* C3 witness: a two-byte group of negative signed chars has been encoded
C3_Witness ==
    /\ build = "signed_wrap" /\ ops = <<"encode">>
    /\ prev = <<-1, -1>> /\ cur = <<38, 38, 56, 61>>

\* C4: the decoded length is 3*(len/4) minus the number of padding characters
\* (one '=' gives exactly 2 bytes for its group, two '=' exactly 1 byte).
C4_DecodedLength ==
    (LastOp = "decode" /\ status = "ok")
        => Len(cur) = 3 * (Len(prev) \div 4) - PadCount(prev)

\* C5: decode fails with the invalid-encoding condition exactly on the inputs
\* whose length is not a multiple of 4, that hold a character outside the
\* alphabet other than trailing padding, or that hold '=' anywhere but the
\* last one or two positions; every other input (the empty one too) passes.
C5_RejectsExactlyInvalid ==
    LastOp = "decode" => (status = "static_assert" <=> ~RefValid(prev))

\* C5 witness: "A=AA" has been rejected
C5_Witness ==
    /\ ops = <<"decode">> /\ prev = <<65, 61, 65, 65>> /\ status = "static_assert"

\* C6: a rejected input is never handed to the decoder groups and the result
\* carries no decoded bytes; bytes are produced only for validated inputs.
C6_ValidateBeforeDecode ==
    LastOp = "decode" =>
        /\ status = "static_assert" => (cur = << >> /\ implGroups = 0)
        /\ (cur # << >> \/ implGroups > 0) => RefValid(prev)

\* C6 witness: a rejected input of five characters left nothing behind
C6_Witness ==
    /\ ops = <<"decode">> /\ Len(prev) = 5 /\ status = "static_assert"
    /\ cur = << >> /\ implGroups = 0

\* dict is the alphabet, without repetition, and indexOf inverts it on every char
DictInverse ==
    /\ Len(dict) = 64
    /\ \A i \in 0..63 : DictAt(i) = RefSym(i) /\ indexOf(DictAt(i)) = i
    /\ \A i, j \in 0..63 : DictAt(i) = DictAt(j) => i = j
    /\ \A c \in -128..255 : c \notin RefAlphabet => indexOf(c) = 64
    /\ indexOf(61) = 64 /\ indexOf(43) = 64 /\ indexOf(47) = 64

\* C7: dict holds 64 pairwise distinct characters (A-Z, a-z, 0-9, '@', '&')
\* and indexOf is its exact inverse, 64 for every character not in dict;
\* every character the program holds is looked up accordingly.
C7_IndexOfInvertsDict ==
    /\ DictInverse
    /\ \A i \in 1..Len(cur) :
          IF cur[i] \in RefAlphabet
          THEN indexOf(cur[i]) < 64 /\ DictAt(indexOf(cur[i])) = cur[i]
          ELSE indexOf(cur[i]) = 64

\* C7 witness: "AA@&" has been decoded through the indices 62 and 63
C7_Witness ==
    /\ build = "unsigned" /\ ops = <<"decode">>
    /\ prev = <<65, 65, 64, 38>> /\ cur = <<0, 15, 191>>

\* C8: at most one programmed routine is pending (sleeping and still going to
\* be invoked) for one Alarm at any moment.
C8_AtMostOnePending ==
    Cardinality({ i \in Slots : thr[i].st = "sleeping" }) <= 1

\* C9: a routine whose alarm was cancelled before its wait elapsed is never
\* invoked afterwards.
C9_CancelledNeverInvoked ==
    \A i \in Slots : thr[i].cancelled => thr[i].st = "sleeping"

\* C10: once PeriodicAlarm::cancel() has returned (and program() is not called
\* again), the alarm is not reprogrammed: no new thread is started.
C10_NoReprogramAfterCancel ==
    [][(ucancelled /\ ucancelled') =>
          \A i \in Slots : thr[i].st = "free" => thr'[i].st = "free"]_vars

\* the routine of a periodic thread is waiting to be invoked, running, or its
\* thread is on the way to starting the next one
InChain(i) ==
    thr[i].periodic
    /\ thr[i].st \in {"sleeping", "event", "cancel_check", "detach", "program_check", "assign"}

\* PeriodicAlarm::program has started the first thread
ProgrammedOnce == temp[0] # 0 \/ uresult = "programmed"

\* no two invocations are scheduled or running at once
AtMostOneScheduled ==
    Cardinality({ i \in Slots : thr[i].st \in {"sleeping", "event"} }) <= 1

\* C11: after program() on an idle PeriodicAlarm that is never cancelled the
\* alarm keeps being reprogrammed: the process goes on, some thread is always
\* waiting to invoke the routine, invoking it, or about to start the next one,
\* and never more than one invocation is scheduled.
C11_KeepsReprogramming ==
    ProgrammedOnce =>
        /\ ~terminated
        /\ \E i \in Slots : InChain(i)
        /\ AtMostOneScheduled

\* C11, as liveness: once programmed, the routine is always invoked again
C11_InvokedInfinitelyOften ==
    ProgrammedOnce ~> (\E i \in Slots : thr[i].st = "event")

\* C12: busy() is true only while a programmed routine is pending or running,
\* false once it has returned, so program() is ignored only while one is.
C12_BusyMeansPending ==
    /\ busy => thr[background].st \in {"sleeping", "event"}
    /\ uresult = "ignored" => \E i \in Slots : thr[i].st \in {"sleeping", "event"}

=============================================================================
